---- MODULE Spec2Model ----
(***************************************************************************)
(* A model of the noise-aware patch selector of smart_pass_manager:        *)
(*   scoring.py  WeightHyperParams.auto_scale, build_weighted_graph,       *)
(*               greedy_pick                                               *)
(*   passes.py   SmartLayoutPass.run (successive builds sharing one        *)
(*               WeightHyperParams object)                                 *)
(*                                                                         *)
(* Three specifications share the variables:                               *)
(*   SpecPick   greedy_pick called on a weighted directed graph            *)
(*   SpecScale  WeightHyperParams.auto_scale applied to a parameter object *)
(*   SpecBuild  build_weighted_graph run repeatedly on one parameter object*)
(*                                                                         *)
(* Numbers: edge weights of SpecPick are positive integers (abstract units *)
(* of the float weights; float rounding is not modelled).  Calibration     *)
(* values of SpecScale and SpecBuild are exact rationals <<num, den>>.      *)
(***************************************************************************)
EXTENDS Integers, Sequences, FiniteSets, TLC

VARIABLES
    \* ---- greedy_pick ----
    G,            \* the nx.DiGraph: [n |-> node count, w |-> [edge -> weight]]
    k,            \* requested patch size
    num_starts,   \* number of seed edges to sample
    pc,           \* position inside greedy_pick / build_weighted_graph
    sample,       \* the seed edges of rng.sample(edges, ...) not yet tried
    best,         \* best patch so far ({} models None)
    best_w,       \* its total weight (Inf models float('inf'))
    result,       \* the returned sorted list (<<>>: nothing returned)
    exc,          \* the exception raised (NoExc: none)
    cands,        \* the size-k patches the starts of this call produced
    call,         \* 1: first call, 2: a later call with the same seed
    first,        \* what the first call was given and what it produced
    rng,          \* the draws random.Random(seed) made in the first call
    \* ---- WeightHyperParams / build_weighted_graph ----
    hyper,        \* the WeightHyperParams object (shared between builds)
    supplied,     \* the object as the caller constructed it
    backend,      \* [n_qubits, coupling_map]
    props,        \* calibration records: [qubits, gates]
    bk,           \* the k of the build in progress
    stats,        \* _collect_backend_stats(backend, props) of this build
    W,            \* the graph under construction: [edge -> weight]
    idx,          \* next coupling_map entry to process
    warned,       \* whether the empty-graph warning was issued
    builds        \* number of builds started on this hyper object

pickVars  == <<G, k, num_starts, pc, sample, best, best_w, cands, result, exc, call,
               first, rng>>
buildVars == <<hyper, supplied, backend, props, bk, stats, W, idx, warned, builds>>
vars      == <<pickVars, buildVars>>

-----------------------------------------------------------------------------
(* Bounds of the model *)

MaxN == 4        \* graphs have 1..MaxN nodes
MaxEdges == 3    \* and at most MaxEdges directed edges
MaxW == 2        \* with weights 1..MaxW
MaxStarts == 2   \* num_starts ranges over 1..MaxStarts

-----------------------------------------------------------------------------
(* Generic helpers *)

RECURSIVE SumOver(_, _)
SumOver(f, S) ==
    IF S = {} THEN 0
    ELSE LET x == CHOOSE y \in S : TRUE IN f[x] + SumOver(f, S \ {x})

Min(S) == CHOOSE x \in S : \A y \in S : x <= y

\* sorted(): the ascending list of a set of integers
RECURSIVE Sorted(_)
Sorted(S) == IF S = {} THEN <<>> ELSE <<Min(S)>> \o Sorted(S \ {Min(S)})

\* every order in which the elements of S can be enumerated
Orders(S) ==
    LET m == Cardinality(S)
    IN  {f \in [1..m -> S] : \A x \in S : \E i \in 1..m : f[i] = x}

\* every list of m distinct elements of S (random.sample without replacement)
Samples(S, m) ==
    {f \in [1..m -> S] : \A i, j \in 1..m : i # j => f[i] # f[j]}

SetOf(s) == {s[i] : i \in DOMAIN s}

-----------------------------------------------------------------------------
(* The graph interface greedy_pick uses *)

NodesOf(g) == 0..(g.n - 1)
EdgesOf(g) == DOMAIN g.w
has_edge(g, u, v) == <<u, v>> \in DOMAIN g.w
successors(g, q) == {v \in NodesOf(g) : has_edge(g, q, v)}
predecessors(g, q) == {v \in NodesOf(g) : has_edge(g, v, q)}

Pairs(n) == {e \in (0..(n - 1)) \X (0..(n - 1)) : e[1] # e[2]}

\* the graphs greedy_pick is called on: 1..MaxN nodes, at most MaxEdges
\* directed edges between distinct nodes (a coupling graph has no self-loop),
\* each with a positive weight
GraphsOn(n) ==
    UNION { {[n |-> n, w |-> f] : f \in [E -> 1..MaxW]}
            : E \in {E \in SUBSET Pairs(n) : Cardinality(E) <= MaxEdges} }

\* float('inf'): above every total a graph of the model can have
Inf == MaxW * MaxN * MaxN + 1

NoExc == [type |-> "", msg |-> ""]
ValueError(m) == [type |-> "ValueError", msg |-> m]

-----------------------------------------------------------------------------
(* greedy_pick: the nested functions *)

\* total(patch): sum of the weights of the directed edges of G.subgraph(patch)
total(g, patch) ==
    SumOver(g.w, {e \in EdgesOf(g) : e[1] \in patch /\ e[2] \in patch})

\* the (q, nbr) pairs the two for-loops of grow visit and keep
FrontierItems(g, patch) ==
    {qn \in patch \X NodesOf(g) :
        /\ qn[2] \in successors(g, qn[1]) \cup predecessors(g, qn[1])
        /\ qn[2] \notin patch}

\* the tuple (w, nbr) appended for (q, nbr)
FrontierEntry(g, qn) ==
    <<IF has_edge(g, qn[1], qn[2]) THEN g.w[<<qn[1], qn[2]>>]
                                   ELSE g.w[<<qn[2], qn[1]>>],
      qn[2]>>

\* Python's order on (w, nbr) tuples
TupleLess(a, b) == a[1] < b[1] \/ (a[1] = b[1] /\ a[2] < b[2])

\* min(frontier, key=weight): the first element of minimum weight, whatever
\* its node (PyMin with the node index dropped from the comparison)
PyMinByWeight(fr) ==
    LET i == CHOOSE i \in DOMAIN fr :
                 /\ \A j \in DOMAIN fr : fr[i][1] <= fr[j][1]
                 /\ \A j \in 1..(i - 1) : fr[i][1] < fr[j][1]
    IN  fr[i]

\* min(frontier): the first element no other element is smaller than
PyMin(fr) ==
    LET i == CHOOSE i \in DOMAIN fr :
                 /\ \A j \in DOMAIN fr : ~TupleLess(fr[j], fr[i])
                 /\ \A j \in 1..(i - 1) : TupleLess(fr[i], fr[j])
    IN  fr[i]

\* grow(edge) from an intermediate patch: the patches the while-loop can end
\* with, over every order in which the sets patch, successors and
\* predecessors may be iterated
RECURSIVE GrowFrom(_, _, _)
GrowFrom(g, patch, kk) ==
    IF Cardinality(patch) >= kk \/ FrontierItems(g, patch) = {}
    THEN {patch}
    ELSE UNION { GrowFrom(g,
                     patch \cup {PyMin([i \in DOMAIN ord |-> FrontierEntry(g, ord[i])])[2]},
                     kk)
                 : ord \in Orders(FrontierItems(g, patch)) }

grow(g, edge, kk) == GrowFrom(g, {edge[1], edge[2]}, kk)

-----------------------------------------------------------------------------
(* greedy_pick: the steps *)

NoFirst == [k |-> 0, result |-> <<>>, exc |-> NoExc]
NoRng == [sample |-> <<>>, fk |-> 0, fallback |-> {}]

\* if k > G.number_of_nodes(): raise ValueError("k exceeds qubit count")
RaiseSize ==
    /\ pc = "call"
    /\ k > G.n
    /\ exc' = ValueError("k exceeds qubit count")
    /\ pc' = "raised"
    /\ UNCHANGED <<G, k, num_starts, sample, best, best_w, cands, result, call, first, rng, buildVars>>

\* if not edges: raise ValueError("Graph has no edges")
RaiseEmpty ==
    /\ pc = "call"
    /\ ~(k > G.n)
    /\ EdgesOf(G) = {}
    /\ exc' = ValueError("Graph has no edges")
    /\ pc' = "raised"
    /\ UNCHANGED <<G, k, num_starts, sample, best, best_w, cands, result, call, first, rng, buildVars>>

\* min(num_starts, len(edges))
SampleSize == IF num_starts < Cardinality(EdgesOf(G)) THEN num_starts
              ELSE Cardinality(EdgesOf(G))

\* rng = random.Random(seed); best, best_w = None, inf;
\* rng.sample(edges, min(num_starts, len(edges)))
\* The generator is a function of the seed: a later call with the same seed,
\* the same edge list and the same sample size draws the same sample.
DrawSample ==
    /\ pc = "call"
    /\ ~(k > G.n)
    /\ EdgesOf(G) # {}
    /\ \E s \in Samples(EdgesOf(G), SampleSize) :
          /\ (call = 2 /\ rng.sample # <<>>) => s = rng.sample
          /\ sample' = s
          /\ rng' = [rng EXCEPT !.sample = s]
    /\ best' = {}
    /\ best_w' = Inf
    /\ cands' = {}
    /\ pc' = "for"
    /\ UNCHANGED <<G, k, num_starts, result, exc, call, first, buildVars>>

\* if len(p) == k
Completed(p, kk) == Cardinality(p) = kk

\* one iteration of `for edge in rng.sample(...)`: p = grow(edge), then the
\* comparison with the best so far
TryStart ==
    /\ pc = "for"
    /\ sample # <<>>
    /\ \E p \in grow(G, Head(sample), k) :
          LET w == total(G, p)
          IN  /\ IF Completed(p, k) /\ w < best_w
                 THEN best' = p /\ best_w' = w
                 ELSE UNCHANGED <<best, best_w>>
              /\ cands' = IF Completed(p, k) THEN cands \cup {p} ELSE cands
    /\ sample' = Tail(sample)
    /\ UNCHANGED <<G, k, num_starts, pc, result, exc, call, first, rng, buildVars>>

\* the loop is over and best is not None: return sorted(best)
ReturnBest ==
    /\ pc = "for"
    /\ sample = <<>>
    /\ best # {}
    /\ result' = Sorted(best)
    /\ pc' = "returned"
    /\ UNCHANGED <<G, k, num_starts, sample, best, best_w, cands, exc, call, first, rng, buildVars>>

\* best is None: best = set(rng.sample(range(G.number_of_nodes()), k)),
\* return sorted(best).  The same seed and the same k draw the same nodes.
ReturnFallback ==
    /\ pc = "for"
    /\ sample = <<>>
    /\ best = {}
    /\ \E d \in {S \in SUBSET NodesOf(G) : Cardinality(S) = k} :
          /\ (call = 2 /\ rng.fk = k) => d = rng.fallback
          /\ rng' = [rng EXCEPT !.fk = k, !.fallback = d]
          /\ best' = d
          /\ result' = Sorted(d)
    /\ pc' = "returned"
    /\ UNCHANGED <<G, k, num_starts, sample, best_w, cands, exc, call, first, buildVars>>

\* the caller calls greedy_pick again on the same graph object with the same
\* num_starts and seed: with the same k after a return, with a k of its choice
\* after an exception
CallAgain ==
    /\ pc \in {"returned", "raised"}
    /\ call = 1
    /\ \E k2 \in (IF pc = "raised" THEN 1..(MaxN + 1) ELSE {k}) : k' = k2
    /\ first' = [k |-> k, result |-> result, exc |-> exc]
    /\ call' = 2
    /\ pc' = "call"
    /\ sample' = <<>>
    /\ best' = {}
    /\ best_w' = Inf
    /\ cands' = {}
    /\ result' = <<>>
    /\ exc' = NoExc
    /\ UNCHANGED <<G, num_starts, rng, buildVars>>

BuildIdle ==
    /\ hyper = <<>>
    /\ supplied = <<>>
    /\ backend = <<>>
    /\ props = <<>>
    /\ bk = 0
    /\ stats = <<>>
    /\ W = <<>>
    /\ idx = 0
    /\ warned = FALSE
    /\ builds = 0

PickInit ==
    /\ \E n \in 1..MaxN : G \in GraphsOn(n)
    /\ k \in 1..(MaxN + 1)
    /\ num_starts \in 1..MaxStarts
    /\ pc = "call"
    /\ sample = <<>>
    /\ best = {}
    /\ best_w = Inf
    /\ cands = {}
    /\ result = <<>>
    /\ exc = NoExc
    /\ call = 1
    /\ first = NoFirst
    /\ rng = NoRng
    /\ BuildIdle

PickNext ==
    \/ RaiseSize
    \/ RaiseEmpty
    \/ DrawSample
    \/ TryStart
    \/ ReturnBest
    \/ ReturnFallback
    \/ CallAgain

SpecPick == PickInit /\ [][PickNext]_vars

-----------------------------------------------------------------------------
(* Exact rational arithmetic: <<numerator, denominator>>, denominator > 0,  *)
(* in lowest terms                                                          *)

Abs(x) == IF x < 0 THEN -x ELSE x

RECURSIVE GCD(_, _)
GCD(a, b) == IF b = 0 THEN a ELSE GCD(b, a % b)

Rat(n, d) == LET g == GCD(Abs(n), d) IN <<n \div g, d \div g>>
RAdd(x, y) ==
    LET g == GCD(x[2], y[2])
    IN  Rat(x[1] * (y[2] \div g) + y[1] * (x[2] \div g), (x[2] \div g) * y[2])
RMul(x, y) ==
    LET g1 == GCD(Abs(x[1]), y[2])
        g2 == GCD(Abs(y[1]), x[2])
    IN  Rat((x[1] \div g1) * (y[1] \div g2), (x[2] \div g2) * (y[2] \div g1))
\* x / y for y > 0
RDiv(x, y) == RMul(x, <<y[2], y[1]>>)
RLess(x, y) ==
    LET g == GCD(x[2], y[2])
    IN  x[1] * (y[2] \div g) < y[1] * (x[2] \div g)
RMax(x, y) == IF RLess(x, y) THEN y ELSE x
FromInt(i) == <<i, 1>>

RECURSIVE RSum(_, _)
RSum(f, S) ==
    IF S = {} THEN <<0, 1>>
    ELSE LET x == CHOOSE y \in S : TRUE IN RAdd(f[x], RSum(f, S \ {x}))

RMaxOf(f, S) == f[CHOOSE x \in S : \A y \in S : ~RLess(f[x], f[y])]

\* Python's None
None == <<>>

-----------------------------------------------------------------------------
(* WeightHyperParams *)

Coefficients == {"alpha", "beta", "gamma", "delta", "direction_penalty", "distance_weight"}

\* stats.get(key, default)
StatGet(st, key, default) == IF key \in DOMAIN st THEN st[key] ELSE default

\* mean_2q = stats.get("mean_2q_err", stats.get("mean_cx_err", 1e-3))
Mean2q(st) == StatGet(st, "mean_2q_err", StatGet(st, "mean_cx_err", <<1, 1000>>))

\* max(stats.get("mean_1q_err", 1e-6), 1e-6)
Mean1qClamped(st) == RMax(StatGet(st, "mean_1q_err", <<1, 1000000>>), <<1, 1000000>>)

\* max(k, 1)
KClamped(kk) == IF kk > 1 THEN kk ELSE 1

\* auto_scale that recomputes alpha and gamma on every call, set or not
auto_scale_overwriting(h, st, kk) ==
    LET a == RDiv(Mean2q(st), Mean1qClamped(st))
        b == IF h.beta = None THEN RDiv(a, <<2, 1>>) ELSE h.beta
        c == RDiv(Mean2q(st), FromInt(KClamped(kk)))
        d == IF h.delta = None THEN <<1, 100>> ELSE h.delta
    IN  [h EXCEPT !.alpha = a, !.beta = b, !.gamma = c, !.delta = d]

\* WeightHyperParams.auto_scale(stats, k): the object after the call
auto_scale(h, st, kk) ==
    LET a == IF h.alpha = None THEN RDiv(Mean2q(st), Mean1qClamped(st)) ELSE h.alpha
        b == IF h.beta = None THEN RDiv(a, <<2, 1>>) ELSE h.beta
        c == IF h.gamma = None THEN RDiv(Mean2q(st), FromInt(KClamped(kk))) ELSE h.gamma
        d == IF h.delta = None THEN <<1, 100>> ELSE h.delta
    IN  [h EXCEPT !.alpha = a, !.beta = b, !.gamma = c, !.delta = d]

\* the objects a caller constructs: each of alpha..delta left None or given,
\* direction_penalty and distance_weight at their defaults or given
HyperObjects ==
    [alpha : {None, <<2, 1>>},
     beta : {None, <<1, 1>>},
     gamma : {None, <<1, 100>>},
     delta : {None, <<0, 1>>},
     direction_penalty : {<<1, 2>>, <<1, 4>>},
     distance_weight : {<<0, 1>>}]

-----------------------------------------------------------------------------
(* SpecScale: auto_scale called on one object with varying stats and k *)

MaxK == 4        \* k ranges over 0..MaxK
MaxCalls == 2    \* auto_scale calls / graph builds on one object

\* the stats dictionaries auto_scale is given: any of the three keys it reads
\* may be missing
StatsDicts ==
    LET vals == [mean_2q_err |-> {<<1, 50>>},
                 mean_cx_err |-> {<<1, 100>>},
                 mean_1q_err |-> {<<1, 500>>, <<0, 1>>}]
    IN  UNION { {f \in [D -> UNION {vals[x] : x \in DOMAIN vals}] :
                    \A x \in D : f[x] \in vals[x]}
                : D \in SUBSET (DOMAIN vals) }

PickIdle ==
    /\ G = [n |-> 0, w |-> <<>>]
    /\ k = 0
    /\ num_starts = 0
    /\ sample = <<>>
    /\ best = {}
    /\ best_w = 0
    /\ cands = {}
    /\ result = <<>>
    /\ exc = NoExc
    /\ call = 0
    /\ first = NoFirst
    /\ rng = NoRng

idleVars == <<G, k, num_starts, sample, best, best_w, cands, result, exc, call, first, rng>>

ScaleInit ==
    /\ PickIdle
    /\ pc = "scale"
    /\ hyper \in HyperObjects
    /\ supplied = hyper
    /\ backend = <<>>
    /\ props = <<>>
    /\ bk = 0
    /\ stats = <<>>
    /\ W = <<>>
    /\ idx = 0
    /\ warned = FALSE
    /\ builds = 0

\* hyper.auto_scale(stats, k)
AutoScaleCall ==
    /\ pc = "scale"
    /\ builds < MaxCalls
    /\ \E st \in StatsDicts, kk \in 0..MaxK :
          /\ hyper' = auto_scale(hyper, st, kk)
          /\ stats' = st
          /\ bk' = kk
    /\ builds' = builds + 1
    /\ UNCHANGED <<idleVars, pc, supplied, backend, props, W, idx, warned>>

ScaleNext == AutoScaleCall

SpecScale == ScaleInit /\ [][ScaleNext]_vars

-----------------------------------------------------------------------------
(* build_weighted_graph *)

MaxQubits == 2   \* the backend has MaxQubits qubits; builds use k in 1..MaxQubits
MaxCm == 3       \* the coupling map has at most MaxCm entries

\* a qubit's calibration: each named value present or missing
QubitRecs ==
    {[gate_error |-> None, readout_error |-> None, T1 |-> None],
     [gate_error |-> <<1, 1000>>, readout_error |-> <<1, 50>>, T1 |-> <<1, 20000>>]}

\* a two-qubit gate's calibration: its error, and its length or None
GateRecs == [error : {<<1, 100>>, <<1, 50>>}, gate_length : {None, <<1, 5000000>>}]

\* backend.properties(): props.qubits by qubit index, props.gates by qubit pair
PropsSet(n) ==
    [qubits : [0..(n - 1) -> QubitRecs],
     gates : UNION {[C -> GateRecs] : C \in SUBSET Pairs(n)}]

\* backend.configuration(): n_qubits and the coupling_map list
Backends(n) ==
    [n_qubits : {n},
     coupling_map : UNION {[1..m -> Pairs(n)] : m \in 0..MaxCm}]

\* mean = lambda lst, default: sum(lst) / len(lst) if lst else default
mean(f, S, default) ==
    IF S = {} THEN default ELSE RDiv(RSum(f, S), FromInt(Cardinality(S)))

\* _collect_backend_stats(backend, props)
collect_backend_stats(pr) ==
    LET gs == DOMAIN pr.gates
        qs == DOMAIN pr.qubits
        twoq == [g \in gs |-> pr.gates[g].error]
        durS == {g \in gs : pr.gates[g].gate_length # None}
        dur == [g \in durS |-> pr.gates[g].gate_length]
        oneqS == {q \in qs : pr.qubits[q].gate_error # None}
        roS == {q \in qs : pr.qubits[q].readout_error # None}
        t1S == {q \in qs : pr.qubits[q].T1 # None}
    IN  [mean_cx_err |-> mean(twoq, gs, <<1, 1000>>),
         max_cx_err |-> IF gs = {} THEN <<1, 1000>> ELSE RMaxOf(twoq, gs),
         mean_1q_err |-> mean([q \in oneqS |-> pr.qubits[q].gate_error], oneqS, <<1, 10000>>),
         mean_ro_err |-> mean([q \in roS |-> pr.qubits[q].readout_error], roS, <<1, 50>>),
         mean_cx_dur |-> mean(dur, durS, <<1, 1000000>>),
         mean_T1 |-> mean([q \in t1S |-> pr.qubits[q].T1], t1S, <<3, 50000>>)]

\* cx_err: the pairs with a native gate error (`(tgt, ctrl) not in cx_err`)
cx_err(pr) == DOMAIN pr.gates

\* oneq_err.get(q, 0), ro_err.get(q, 0)
oneq_err(pr, q) ==
    IF pr.qubits[q].gate_error # None THEN pr.qubits[q].gate_error ELSE <<0, 1>>
ro_err(pr, q) ==
    IF pr.qubits[q].readout_error # None THEN pr.qubits[q].readout_error ELSE <<0, 1>>

\* default_err = 1.5 * stats.get("max_2q_err", stats["max_cx_err"])
default_err(st) == RMul(<<3, 2>>, StatGet(st, "max_2q_err", st.max_cx_err))

\* the weight w computed for one coupling_map entry (ctrl, tgt)
edge_weight(h, st, pr, e) ==
    LET base == IF e \in cx_err(pr) THEN pr.gates[e].error ELSE default_err(st)
        length == IF e \in DOMAIN pr.gates /\ pr.gates[e].gate_length # None
                  THEN pr.gates[e].gate_length ELSE st.mean_cx_dur
        sq == RAdd(oneq_err(pr, e[1]), oneq_err(pr, e[2]))
        ro_sum == RAdd(ro_err(pr, e[1]), ro_err(pr, e[2]))
        decoh == RDiv(RMul(h.delta, length), RMax(st.mean_T1, <<1, 1000000>>))
    IN  RAdd(RAdd(RAdd(RAdd(base, RMul(h.alpha, sq)), RMul(h.beta, ro_sum)), h.gamma),
             decoh)

\* G.add_edge(u, v, weight=w): adds the edge or overwrites its weight
add_edge(w, e, x) == [d \in DOMAIN w \cup {e} |-> IF d = e THEN x ELSE w[d]]

\* the body of `for ctrl, tgt in coupling_map` for one entry
add_entry(w, h, st, pr, e) ==
    LET x == edge_weight(h, st, pr, e)
        w1 == add_edge(w, e, x)
        rev == <<e[2], e[1]>>
    IN  IF rev \notin cx_err(pr)
        THEN add_edge(w1, rev, RAdd(x, h.direction_penalty))
        ELSE w1

\* the edges after the entries i.. of the list cm were processed in order
RECURSIVE add_entries(_, _, _, _, _, _)
add_entries(w, h, st, pr, cm, i) ==
    IF i > Len(cm) THEN w
    ELSE add_entries(add_entry(w, h, st, pr, cm[i]), h, st, pr, cm, i + 1)

NoEdges == [e \in {} |-> <<0, 1>>]

BuildInit ==
    /\ PickIdle
    /\ pc = "idle"
    /\ hyper \in {h \in HyperObjects : h.direction_penalty = <<1, 2>>}
    /\ supplied = hyper
    /\ backend \in Backends(MaxQubits)
    /\ props \in PropsSet(MaxQubits)
    /\ bk = 0
    /\ stats = <<>>
    /\ W = NoEdges
    /\ idx = 0
    /\ warned = FALSE
    /\ builds = 0

\* SmartLayoutPass.run / smart_transpile call build_weighted_graph(backend,
\* props, k, hyper=self.hyper_params): stats, hyper.auto_scale(stats, k),
\* G = nx.DiGraph() with the nodes, the calibration dictionaries
BuildStart ==
    /\ pc \in {"idle", "built"}
    /\ builds < MaxCalls
    /\ \E kk \in 1..MaxQubits :
          /\ bk' = kk
          /\ stats' = collect_backend_stats(props)
          /\ hyper' = auto_scale(hyper, collect_backend_stats(props), kk)
    /\ W' = NoEdges
    /\ idx' = 1
    /\ warned' = FALSE
    /\ builds' = builds + 1
    /\ pc' = "edges"
    /\ UNCHANGED <<idleVars, supplied, backend, props>>

\* one iteration of `for ctrl, tgt in backend.configuration().coupling_map`
AddEdges ==
    /\ pc = "edges"
    /\ idx <= Len(backend.coupling_map)
    /\ W' = add_entry(W, hyper, stats, props, backend.coupling_map[idx])
    /\ idx' = idx + 1
    /\ UNCHANGED <<idleVars, pc, hyper, supplied, backend, props, bk, stats, warned, builds>>

\* the loop is over: warn if G.number_of_edges() == 0, return G
BuildReturn ==
    /\ pc = "edges"
    /\ idx > Len(backend.coupling_map)
    /\ warned' = (DOMAIN W = {})
    /\ pc' = "built"
    /\ UNCHANGED <<idleVars, hyper, supplied, backend, props, bk, stats, W, idx, builds>>

BuildNext ==
    \/ BuildStart
    \/ AddEdges
    \/ BuildReturn

SpecBuild == BuildInit /\ [][BuildNext]_vars

-----------------------------------------------------------------------------
(* Notions the properties of greedy_pick are stated with *)

\* the nodes of S reachable from R inside S, edges taken in either direction
RECURSIVE ReachIn(_, _, _)
ReachIn(g, S, R) ==
    LET R2 == R \cup {v \in S : \E u \in R : has_edge(g, u, v) \/ has_edge(g, v, u)}
    IN  IF R2 = R THEN R ELSE ReachIn(g, S, R2)

\* breadth-first reachability over the patch, ignoring direction
Connected(g, S) == S # {} /\ ReachIn(g, S, {Min(S)}) = S

StrictlyAscending(s) == \A i \in 1..(Len(s) - 1) : s[i] < s[i + 1]

\* the unordered node pairs of S that have an edge in some direction
LinkedPairs(g, S) ==
    {e \in S \X S : e[1] < e[2] /\ (has_edge(g, e[1], e[2]) \/ has_edge(g, e[2], e[1]))}

DirWeights(g, e) ==
    {g.w[d] : d \in {<<e[1], e[2]>>, <<e[2], e[1]>>} \cap EdgesOf(g)}

\* a score that counts each linked pair once, with its lighter / heavier direction
PairScoreMin(g, S) ==
    SumOver([e \in LinkedPairs(g, S) |-> Min(DirWeights(g, e))], LinkedPairs(g, S))
PairScoreMax(g, S) ==
    SumOver([e \in LinkedPairs(g, S) |-> -Min({-x : x \in DirWeights(g, e)})],
            LinkedPairs(g, S))

\* the nodes outside S adjacent to a member of S
Boundary(g, S) ==
    {v \in NodesOf(g) \ S : \E u \in S : has_edge(g, u, v) \/ has_edge(g, v, u)}

\* the edges of minimum weight
LowestEdges(g) == {e \in EdgesOf(g) : \A d \in EdgesOf(g) : g.w[e] <= g.w[d]}

Finished == pc \in {"returned", "raised"}

-----------------------------------------------------------------------------
(* Properties of greedy_pick *)

\* C1: for a graph with at least one edge and 1 <= k <= number of nodes,
\* greedy_pick returns a sorted list of exactly k distinct node indices whose
\* induced subgraph, ignoring direction, is connected.
C1_ReturnsConnectedKPatch ==
    (Finished /\ EdgesOf(G) # {} /\ k >= 1 /\ k <= G.n) =>
        /\ pc = "returned"
        /\ Len(result) = k
        /\ StrictlyAscending(result)
        /\ SetOf(result) \subseteq NodesOf(G)
        /\ Connected(G, SetOf(result))

\* C2: when no sampled seed edge grows to size k, the result is the patch
\* grown from a lowest-weight edge of the graph, whatever its size.
C2_FallbackGrowsFromLowestEdge ==
    (pc = "returned" /\ cands = {} /\ k >= 2) =>
        \E e \in LowestEdges(G) : \E p \in grow(G, e, k) : result = Sorted(p)

\* C3: k > node count fails with a size-constraint error; k <= node count on
\* an edgeless graph fails with an empty-graph error; nothing is returned;
\* the two failures are of distinct error kinds.
C3_DistinctErrorKinds ==
    /\ (Finished /\ k > G.n) => (pc = "raised" /\ exc # NoExc /\ result = <<>>)
    /\ (Finished /\ k <= G.n /\ EdgesOf(G) = {}) =>
           (pc = "raised" /\ exc # NoExc /\ result = <<>>)
    /\ (call = 2 /\ pc = "raised" /\ first.exc # NoExc
            /\ (first.k > G.n) # (k > G.n)) => exc.type # first.exc.type

\* C4: two calls with the same graph, k, num_starts and seed produce the
\* identical outcome, whatever the order in which sets are iterated and
\* however ties between frontier nodes and between candidates fall.
C4_SameSeedSamePatch ==
    (call = 2 /\ Finished /\ k = first.k) =>
        (result = first.result /\ exc = first.exc)

\* a repeated call that returned a patch chosen among several candidates of
\* equal total, at least one grown past a tie between frontier nodes
C4_Witness ==
    /\ call = 2
    /\ pc = "returned"
    /\ k = first.k
    /\ result = first.result
    /\ \E c1, c2 \in cands : c1 # c2 /\ total(G, c1) = best_w /\ total(G, c2) = best_w
    /\ \E c \in cands : \E q \in c : \E a, b \in NodesOf(G) \ {q} :
           /\ a # b
           /\ has_edge(G, q, a) /\ has_edge(G, q, b)
           /\ G.w[<<q, a>>] = G.w[<<q, b>>]

\* C6: the returned patch is a local optimum of single-node swaps: no member i
\* and boundary node w give a connected set of strictly lower score (neither
\* by the sum greedy_pick computes nor by a once-per-pair score).
C6_SwapLocalOptimum ==
    (pc = "returned" /\ cands # {}) =>
        LET P == SetOf(result)
            Swaps == {(P \ {i}) \cup {w} : i \in P, w \in Boundary(G, P)}
        IN  \/ \A Q \in Swaps : ~(Connected(G, Q) /\ total(G, Q) < total(G, P))
            \/ \A Q \in Swaps : ~(Connected(G, Q) /\ PairScoreMin(G, Q) < PairScoreMin(G, P))
            \/ \A Q \in Swaps : ~(Connected(G, Q) /\ PairScoreMax(G, Q) < PairScoreMax(G, P))

\* C7: the score that compares candidates counts each unordered pair at most
\* once (one directed weight, not the sum of both), and the retained candidate
\* has minimum such score among the starts that reached size k.
C7_PairCountedOnce ==
    (pc = "returned" /\ cands # {}) =>
        /\ PairScoreMin(G, best) <= best_w
        /\ best_w <= PairScoreMax(G, best)
        /\ \A c \in cands : PairScoreMin(G, best) <= PairScoreMax(G, c)

-----------------------------------------------------------------------------
(* Properties of WeightHyperParams.auto_scale and build_weighted_graph *)

\* C5: auto_scale never changes a coefficient that is set when it is called,
\* and sets every unset one to alpha = mean_2q / max(mean_1q, eps),
\* beta = alpha / 2, gamma = mean_2q / max(k, 1), delta = 0.01; with
\* mean_2q = 0.02, mean_1q = 0.002, k = 4 and nothing set: alpha = 10,
\* beta = 5, gamma = 0.005.
C5_AutoScaleFillsOnlyUnset ==
    [][builds' = builds + 1 =>
        LET m2 == Mean2q(stats')
            m1 == StatGet(stats', "mean_1q_err", <<1, 1000000>>)
            eps == <<1, 1000000>>
        IN  /\ \A c \in Coefficients : hyper[c] # None => hyper'[c] = hyper[c]
            /\ hyper.alpha = None =>
                   hyper'.alpha = RDiv(m2, IF RLess(m1, eps) THEN eps ELSE m1)
            /\ hyper.beta = None => RMul(hyper'.beta, <<2, 1>>) = hyper'.alpha
            /\ hyper.gamma = None =>
                   RMul(hyper'.gamma, FromInt(IF bk' < 1 THEN 1 ELSE bk')) = m2
            /\ hyper.delta = None => hyper'.delta = <<1, 100>>
            /\ (/\ m2 = <<1, 50>> /\ m1 = <<1, 500>> /\ bk' = 4
                /\ \A c \in {"alpha", "beta", "gamma", "delta"} : hyper[c] = None) =>
                   (/\ hyper'.alpha = <<10, 1>>
                    /\ hyper'.beta = <<5, 1>>
                    /\ hyper'.gamma = <<1, 200>>)
    ]_vars

\* the scenario of C5 has run, on an object with nothing set
C5_Witness ==
    /\ pc = "scale"
    /\ builds = 1
    /\ \A c \in {"alpha", "beta", "gamma", "delta"} : supplied[c] = None
    /\ Mean2q(stats) = <<1, 50>>
    /\ StatGet(stats, "mean_1q_err", None) = <<1, 500>>
    /\ bk = 4
    /\ hyper.alpha = <<10, 1>> /\ hyper.beta = <<5, 1>> /\ hyper.gamma = <<1, 200>>

\* C8: in the returned graph, for every connection (u,v) that has native
\* calibration while (v,u) has none, weight(v,u) = weight(u,v) +
\* direction_penalty, whether or not and wherever (v,u) is listed.
C8_ReversePenalty ==
    pc = "built" =>
        \A i \in DOMAIN backend.coupling_map :
            LET e == backend.coupling_map[i]
                rev == <<e[2], e[1]>>
            IN  (e \in DOMAIN props.gates /\ rev \notin DOMAIN props.gates) =>
                    /\ rev \in DOMAIN W
                    /\ W[rev] = RAdd(W[e], hyper.direction_penalty)

\* C9: the returned graph does not depend on the order of the coupling map:
\* every permutation of the list gives the same edges and weights.
C9_OrderIndependent ==
    pc = "built" =>
        \A perm \in Orders(DOMAIN backend.coupling_map) :
            add_entries(NoEdges, hyper, stats, props,
                        [i \in DOMAIN backend.coupling_map |-> backend.coupling_map[perm[i]]],
                        1) = W

\* C10: over builds sharing one WeightHyperParams object, every coefficient
\* the caller left unset is, in each build, the auto-scale value for that
\* build's own statistics and k; gamma = mean_2q_error / max(k, 1).
C10_ScaledPerBuild ==
    pc \in {"edges", "built"} =>
        /\ supplied.alpha = None =>
               hyper.alpha = RDiv(stats.mean_cx_err, RMax(stats.mean_1q_err, <<1, 1000000>>))
        /\ supplied.beta = None => RMul(hyper.beta, <<2, 1>>) = hyper.alpha
        /\ supplied.gamma = None =>
               RMul(hyper.gamma, FromInt(IF bk < 1 THEN 1 ELSE bk)) = stats.mean_cx_err
        /\ supplied.delta = None => hyper.delta = <<1, 100>>

====
